---- MODULE Spec2Model ----
(***************************************************************************)
(* Model of src/app.py: the Streamlit script that turns a pasted           *)
(* transcript, a .txt upload or a .srt upload into a prompt, sends it to   *)
(* the chat-completion API and shows the answer.                           *)
(*                                                                         *)
(* Text is a sequence of Unicode code points, a file is a sequence of      *)
(* bytes (0..255).  The three re.sub calls of parse_srt, bytes.decode,     *)
(* str.splitlines, str.join and str.strip are computed on those sequences  *)
(* the way CPython computes them.                                          *)
(*                                                                         *)
(* One script run is: sidebar (lines 135-171), input section (lines        *)
(* 185-199), generation section (lines 205-232).  Streamlit runs the       *)
(* script again from the top on the next interaction.                      *)
(*                                                                         *)
(* Lines 119-127 of app.py are a left-over of an older template placed     *)
(* after the function's closing quotes; they belong to no function and are *)
(* not modelled.                                                           *)
(***************************************************************************)
EXTENDS Integers, Sequences, FiniteSets, TLC

\* ------------------------------------------------------------------ bounds

\* Cues of a well-formed subtitle document.
MaxCues == 2
\* Lines of a free-form subtitle document.
MaxLines == 3
\* Characters of a pasted transcript.
MaxTextLen == 3
\* Bytes of an uploaded .txt file.
MaxTxtLen == 3

\* ------------------------------------------------------- characters, bytes

\* No value of the script (Python's None; no file in the uploader): told from
\* every text and every file, whose elements are never negative.
None == <<-1>>

\* "\n".
LF == <<10>>

\* "\r\n".
CRLF == <<13, 10>>

\* Code points re's \d matches in a str pattern (Unicode decimal digits):
\* ASCII, Arabic-Indic and Devanagari digits.
Digits == (48..57) \cup (1632..1641) \cup (2406..2415)

\* Code points re's \s and str.strip treat as whitespace (str.isspace).
Whitespace ==
    {9, 10, 11, 12, 13, 28, 29, 30, 31, 32, 133, 160, 5760} \cup (8192..8202)
        \cup {8232, 8233, 8239, 8287, 12288}

\* Code points str.splitlines ends a line at ("\r\n" counts once).
LineBreaks == {10, 11, 12, 13, 28, 29, 30, 133, 8232, 8233}

IsCont(b) == b \in 128..191

\* Length of the well-formed UTF-8 sequence starting at b[i], 0 when the
\* bytes there are not valid UTF-8 (bytes.decode('utf-8'), errors='strict':
\* no overlong forms, no surrogates, nothing above U+10FFFF).
Utf8SeqLen(b, i) ==
    LET n == Len(b)
        c == b[i]
        At(k) == IF i + k <= n THEN b[i + k] ELSE 0
    IN  IF c <= 127 THEN 1
        ELSE IF c \in 194..223 THEN (IF IsCont(At(1)) THEN 2 ELSE 0)
        ELSE IF c = 224
            THEN (IF At(1) \in 160..191 /\ IsCont(At(2)) THEN 3 ELSE 0)
        ELSE IF c \in (225..236) \cup {238, 239}
            THEN (IF IsCont(At(1)) /\ IsCont(At(2)) THEN 3 ELSE 0)
        ELSE IF c = 237
            THEN (IF At(1) \in 128..159 /\ IsCont(At(2)) THEN 3 ELSE 0)
        ELSE IF c = 240
            THEN (IF At(1) \in 144..191 /\ IsCont(At(2)) /\ IsCont(At(3))
                  THEN 4 ELSE 0)
        ELSE IF c \in 241..243
            THEN (IF IsCont(At(1)) /\ IsCont(At(2)) /\ IsCont(At(3))
                  THEN 4 ELSE 0)
        ELSE IF c = 244
            THEN (IF At(1) \in 128..143 /\ IsCont(At(2)) /\ IsCont(At(3))
                  THEN 4 ELSE 0)
        ELSE 0

\* The code point of the n-byte sequence at b[i].
CodePoint(b, i, n) ==
    CASE n = 1 -> b[i]
      [] n = 2 -> (b[i] - 192) * 64 + (b[i + 1] - 128)
      [] n = 3 -> (b[i] - 224) * 4096 + (b[i + 1] - 128) * 64 + (b[i + 2] - 128)
      [] n = 4 -> (b[i] - 240) * 262144 + (b[i + 1] - 128) * 4096
                    + (b[i + 2] - 128) * 64 + (b[i + 3] - 128)

\* The least element of a non-empty set of integers.
Min(S) == CHOOSE x \in S : \A y \in S : x <= y

\* The greatest element of a non-empty set of integers.
Max(S) == CHOOSE x \in S : \A y \in S : y <= x

\* The bytes lo..hi decoded, lo being the first byte of a character.  The
\* range is halved at a byte that is no continuation byte (a character never
\* spans such a cut), which keeps the evaluation shallow; the result is that
\* of the decoder's left-to-right scan.
RECURSIVE DecodeRange(_, _, _)
DecodeRange(b, lo, hi) ==
    IF lo > hi THEN [ok |-> TRUE, text |-> <<>>]
    ELSE LET n == Utf8SeqLen(b, lo)
             cuts == {m \in (lo + 1)..hi : m >= (lo + hi) \div 2 /\ ~IsCont(b[m])}
         IN  IF n = 0 THEN [ok |-> FALSE, text |-> <<>>]
             ELSE IF hi - lo < 4 \/ cuts = {}
                 THEN LET rest == DecodeRange(b, lo + n, hi)
                      IN  [ok |-> rest.ok,
                           text |-> <<CodePoint(b, lo, n)>> \o rest.text]
             ELSE LET m == Min(cuts)
                      left == DecodeRange(b, lo, m - 1)
                      right == DecodeRange(b, m, hi)
                  IN  [ok |-> left.ok /\ right.ok,
                       text |-> left.text \o right.text]

\* bytes.decode('utf-8'): ok with the text, or not ok (UnicodeDecodeError).
Utf8Decode(b) ==
    LET d == DecodeRange(b, 1, Len(b))
    IN  IF d.ok THEN d ELSE [ok |-> FALSE, text |-> <<>>]

\* First position at or after i whose character is in S, Len(s) + 1 when
\* there is none.
FirstIn(s, i, S) ==
    LET at == {k \in i..Len(s) : s[k] \in S}
    IN  IF at = {} THEN Len(s) + 1 ELSE Min(at)

\* First position at or after i whose character is not in S, Len(s) + 1
\* when there is none.
FirstNotIn(s, i, S) ==
    LET at == {k \in i..Len(s) : s[k] \notin S}
    IN  IF at = {} THEN Len(s) + 1 ELSE Min(at)

\* ---------------------------------------------------------------- parse_srt

\* \d{2}:\d{2}:\d{2},\d{3} --> \d{2}:\d{2}:\d{2},\d{3} as the set of code
\* points each of its 29 positions accepts.
TimeRangePattern ==
    LET d == Digits
        stamp == <<d, d, {58}, d, d, {58}, d, d, {44}, d, d, d>>
    IN  stamp \o <<{32}, {45}, {45}, {62}, {32}>> \o stamp

\* The time-range pattern matches s at position i.
TimeRangeAt(s, i) ==
    /\ i + Len(TimeRangePattern) - 1 <= Len(s)
    /\ \A k \in 1..Len(TimeRangePattern) : s[i + k - 1] \in TimeRangePattern[k]

\* Where a match of \d+\n<time range>\n that starts at i ends (the position
\* after it), 0 when there is none.  \d+ is greedy and must be followed by
\* "\n", so it takes the digits up to the end of the run; nothing in the
\* pattern asks that the run starts a line.
HeaderMatchEnd(s, i) ==
    IF s[i] \notin Digits THEN 0
    ELSE LET j == FirstNotIn(s, i, Digits)
             e == j + 1 + Len(TimeRangePattern)
         IN  IF /\ j <= Len(s)
                /\ s[j] = 10
                /\ TimeRangeAt(s, j + 1)
                /\ e <= Len(s)
                /\ s[e] = 10
             THEN e + 1
             ELSE 0

\* Where a match of <[^>]+> that starts at i ends, 0 when there is none.
\* [^>] also matches a line break.
TagMatchEnd(s, i) ==
    IF s[i] # 60 \/ i + 1 > Len(s) \/ s[i + 1] = 62 THEN 0
    ELSE LET k == FirstIn(s, i + 1, {62})
         IN  IF k <= Len(s) THEN k + 1 ELSE 0

\* ^ with re.MULTILINE: the start of the string or just after a "\n".
AtLineStart(s, i) == i = 1 \/ s[i - 1] = 10

\* $ with re.MULTILINE: the end of the string or just before a "\n".
AtLineEnd(s, i) == i = Len(s) + 1 \/ s[i] = 10

\* Where the non-empty match of ^\s*$ that starts at i ends, 0 when there is
\* none.  \s* is greedy and backs off until $ holds, so the match ends at the
\* last line end within the whitespace run; the "\n" after it is not
\* consumed.  An empty match replaces nothing by nothing and is left out.
BlankMatchEnd(s, i) ==
    IF ~AtLineStart(s, i) THEN 0
    ELSE LET q == FirstNotIn(s, i, Whitespace)
             ends == {e \in (i + 1)..q : AtLineEnd(s, e)}
         IN  IF ends = {} THEN 0 ELSE Max(ends)

\* re.sub(pattern, '', s) from position i on: the leftmost match at or after
\* i is dropped and the scan goes on where it ended.  starts holds the
\* positions where the pattern matches and ends[k] where the match at k ends.
RECURSIVE SubFrom(_, _, _, _)
SubFrom(s, i, starts, ends) ==
    LET next == {k \in starts : k >= i}
    IN  IF next = {} THEN SubSeq(s, i, Len(s))
        ELSE LET k == Min(next)
             IN  SubSeq(s, i, k - 1) \o SubFrom(s, ends[k], starts, ends)

\* re.sub(r'\d+\n\d{2}:\d{2}:\d{2},\d{3} --> \d{2}:\d{2}:\d{2},\d{3}\n', '', s)
RemoveHeaders(s) ==
    LET ends == [k \in 1..Len(s) |-> HeaderMatchEnd(s, k)]
    IN  SubFrom(s, 1, {k \in 1..Len(s) : ends[k] > 0}, ends)

\* re.sub(r'<[^>]+>', '', s)
RemoveTags(s) ==
    LET ends == [k \in 1..Len(s) |-> TagMatchEnd(s, k)]
    IN  SubFrom(s, 1, {k \in 1..Len(s) : ends[k] > 0}, ends)

\* re.sub(r'^\s*$', '', s, flags=re.MULTILINE)
RemoveBlank(s) ==
    LET ends == [k \in 1..Len(s) |-> BlankMatchEnd(s, k)]
    IN  SubFrom(s, 1, {k \in 1..Len(s) : ends[k] > 0}, ends)

\* str.splitlines() from position i on: the lines of s without their line
\* breaks; a line break at the very end opens no further line.
RECURSIVE SplitFrom(_, _)
SplitFrom(s, i) ==
    IF i > Len(s) THEN <<>>
    ELSE LET k == FirstIn(s, i, LineBreaks)
             n == IF k < Len(s) /\ s[k] = 13 /\ s[k + 1] = 10 THEN 2 ELSE 1
         IN  <<SubSeq(s, i, k - 1)>> \o SplitFrom(s, k + n)

SplitLines(s) == SplitFrom(s, 1)

\* sep.join(lines)
RECURSIVE Join(_, _)
Join(lines, sep) ==
    IF lines = <<>> THEN <<>>
    ELSE IF Len(lines) = 1 THEN lines[1]
    ELSE lines[1] \o sep \o Join(Tail(lines), sep)

\* Lines 55-59 of parse_srt: the cleaning of the decoded text.
CleanSrt(srt_text) ==
    Join(SplitLines(RemoveBlank(RemoveTags(RemoveHeaders(srt_text)))), LF)

\* parse_srt decoding with errors='ignore': the bytes that are not UTF-8 are
\* skipped (here: every byte above 127) and the rest is cleaned and returned.
parse_srt_ignoring(file_content) ==
    CleanSrt(Utf8Decode(SelectSeq(file_content, LAMBDA b : b <= 127)).text)

\* parse_srt(file_content): the transcript, or None (with the error shown)
\* when decoding raised.
parse_srt(file_content) ==
    LET d == Utf8Decode(file_content)
    IN  IF d.ok THEN CleanSrt(d.text) ELSE None

\* ------------------------------------------------------ get_engineered_prompt

\* The template's literal text before the replacement field: its last lines,
\* '# [INPUT]' and 'TRANSCRIPT: """' (lines 70-77; the role and task
\* paragraphs before them are literal text too and are left out).
PromptPrefix ==
    <<10, 35, 32, 91, 73, 78, 80, 85, 84, 93, 10, 84, 82, 65, 78, 83, 67, 82,
      73, 80, 84, 58, 32, 34, 34, 34, 10>>

\* The template's literal text after the replacement field: its first lines,
\* '"""' and '# [GENERATION GUIDELINES]' (lines 79-117, the rest left out).
PromptSuffix ==
    <<10, 34, 34, 34, 10, 10, 35, 32, 91, 71, 69, 78, 69, 82, 65, 84, 73, 79,
      78, 32, 71, 85, 73, 68, 69, 76, 73, 78, 69, 83, 93, 10>>

\* FormatField as a template engine that scans the value again would do it:
\* the braces of the value are taken for field marks and lost.
FormatFieldRescanned(value) ==
    SelectSeq(value, LAMBDA c : c \notin {123, 125})

\* The f-string's replacement field {transcript_text}: format(value, '') of
\* a str is the str itself; the value is not scanned for braces or quotes.
FormatField(value) == value

\* get_engineered_prompt(transcript_text)
get_engineered_prompt(transcript_text) ==
    PromptPrefix \o FormatField(transcript_text) \o PromptSuffix

\* ----------------------------------------------------------------- inputs

\* All sequences over S of length at most n.
RECURSIVE SeqsUpTo(_, _)
SeqsUpTo(S, n) ==
    IF n = 0 THEN {<<>>}
    ELSE LET shorter == SeqsUpTo(S, n - 1)
         IN  shorter \cup {Append(q, x) : q \in shorter, x \in S}

\* The concatenation of a sequence of sequences.
RECURSIVE Concat(_)
Concat(parts) ==
    IF parts = <<>> THEN <<>> ELSE parts[1] \o Concat(Tail(parts))

\* "00:00:01,000 --> 00:00:02,000"
TimeRange ==
    <<48, 48, 58, 48, 48, 58, 48, 49, 44, 48, 48, 48, 32, 45, 45, 62, 32,
      48, 48, 58, 48, 48, 58, 48, 50, 44, 48, 48, 48>>

\* "00:00:01,000 -> 00:00:02,000": a time range with a malformed arrow.
BadTimeRange ==
    <<48, 48, 58, 48, 48, 58, 48, 49, 44, 48, 48, 48, 32, 45, 62, 32,
      48, 48, 58, 48, 48, 58, 48, 50, 44, 48, 48, 48>>

\* "H\u00e9": a dialogue line with a two-byte character.
Hey == <<72, 195, 169>>

\* "<i>Bye</i>"
ItalicBye == <<60, 105, 62, 66, 121, 101, 60, 47, 105, 62>>

\* "Ch 12"
Chapter12 == <<67, 104, 32, 49, 50>>

\* The dialogue of one cue: one or two lines, each ended by "\n".
Dialogues ==
    LET lines == {Hey, ItalicBye}
    IN  {l \o LF : l \in lines} \cup {l \o LF \o m \o LF : l, m \in lines}

\* The k-th cue of a well-formed document: its number, its time range, its
\* dialogue d, a blank line.
Cue(k, d) == <<48 + k>> \o LF \o TimeRange \o LF \o d \o LF

\* Well-formed documents of n cues.
RECURSIVE CueDocs(_)
CueDocs(n) ==
    IF n = 0 THEN {<<>>}
    ELSE {doc \o Cue(n, d) : doc \in CueDocs(n - 1), d \in Dialogues}

\* The .srt files made only of well-formed cues; the blank line after the
\* last cue may be missing.
WellFormedDocs ==
    LET docs == UNION {CueDocs(n) : n \in 0..MaxCues}
    IN  docs \cup {SubSeq(doc, 1, Len(doc) - 1) : doc \in docs \ {<<>>}}

\* The .srt files made of at most MaxLines lines of any kind, every line
\* ended the same way, by "\n" or by "\r\n".
FreeDocs ==
    LET contents == {<<>>, <<32>>, <<49>>, TimeRange, BadTimeRange, Hey, Chapter12}
    IN  {Concat([k \in 1..Len(ls) |-> ls[k] \o eol]) :
            ls \in SeqsUpTo(contents, MaxLines), eol \in {LF, CRLF}}

\* Byte sequences that are not UTF-8: a byte that never occurs, a lead byte
\* without its continuation, a continuation byte alone, an overlong form, a
\* surrogate, a cut three-byte sequence.
BadBytes ==
    {<<255>>, <<195>>, <<169>>, <<192, 128>>, <<237, 160, 128>>, <<226, 130>>}

\* The .srt files that hold such bytes, alone or after and before valid
\* subtitle text.
InvalidDocs ==
    {p \o b \o q : p \in {<<>>, Cue(1, Hey \o LF)}, b \in BadBytes,
                   q \in {<<>>, Hey \o LF}}

SrtFiles == WellFormedDocs \cup FreeDocs \cup InvalidDocs

\* The .txt files: a space, a letter, the two bytes of U+00E9 in any order.
TxtFiles == SeqsUpTo({32, 72, 195, 169}, MaxTxtLen)

\* The pasted texts: a space, a letter, braces, a double quote.
PasteTexts == SeqsUpTo({32, 97, 123, 125, 34}, MaxTextLen)

\* The model identifiers the API lists (those that contain 'gpt').
GptModels == {"gpt-4o-mini", "gpt-4o"}

\* The texts the API answers with.
Results == {<<45, 32, 65>>, <<45, 32, 66>>}

\* How the work of one press of the button ends: the client cannot be made
\* (nothing sent), the API raises openai.APIError, the call or the reading of
\* the response raises another exception, the API answers.
Outcomes == {"client_error", "api_error", "error", "ok"}

\* ------------------------------------------------------------------ script

VARIABLES
    pc,                 \* where the script run is
    selected_model,     \* line 157 / 166
    input_method,       \* line 179
    upload,             \* the uploader's file, None without one
    transcript_input,   \* line 185
    pressed,            \* st.button returned True in this run
    prompt,             \* line 212, None while not built
    requests,           \* the calls of chat.completions.create in this run
    response,           \* what the call ended with
    displayed,          \* the text st.markdown(result) shows, line 227
    shown,              \* the messages of this run
    unhandled           \* the exception that ended the run, "none" if none

vars ==
    <<pc, selected_model, input_method, upload, transcript_input, pressed,
      prompt, requests, response, displayed, shown, unhandled>>

\* str.strip(): s without its leading and trailing whitespace.
Strip(s) ==
    LET keep == {k \in 1..Len(s) : s[k] \notin Whitespace}
    IN  IF keep = {} THEN <<>> ELSE SubSeq(s, Min(keep), Max(keep))

\* NoTranscript without the strip(): only None and '' are refused.
NoTranscriptUnstripped(t) == t = None \/ t = <<>>

\* Line 206: not transcript_input or not transcript_input.strip()
NoTranscript(t) == t = None \/ t = <<>> \/ Strip(t) = <<>>

\* The state a script run starts in.
Init ==
    /\ pc = "sidebar"
    /\ selected_model = "none"
    /\ input_method = "none"
    /\ upload = None
    /\ transcript_input = <<>>
    /\ pressed = FALSE
    /\ prompt = None
    /\ requests = <<>>
    /\ response = [status |-> "none", content |-> <<>>]
    /\ displayed = None
    /\ shown = {}
    /\ unhandled = "none"

\* Lines 139-144: no API key in the secrets; st.stop() ends the run.
SidebarNoKey ==
    /\ pc = "sidebar"
    /\ pc' = "stopped"
    /\ shown' = shown \cup {"no_api_key"}
    /\ UNCHANGED <<selected_model, input_method, upload, transcript_input,
                   pressed, prompt, requests, response, displayed, unhandled>>

\* Lines 147-162: the models are listed and the user picks one.
SidebarSelect ==
    /\ pc = "sidebar"
    /\ \E m \in GptModels : selected_model' = m
    /\ pc' = "input"
    /\ UNCHANGED <<input_method, upload, transcript_input, pressed, prompt,
                   requests, response, displayed, shown, unhandled>>

\* Lines 163-166: listing the models raised; the default model is used.
SidebarFetchFails ==
    /\ pc = "sidebar"
    /\ selected_model' = "gpt-4o-mini"
    /\ shown' = shown \cup {"models_error"}
    /\ pc' = "input"
    /\ UNCHANGED <<input_method, upload, transcript_input, pressed, prompt,
                   requests, response, displayed, unhandled>>

\* Lines 187-188: the text area's content.
PasteText ==
    /\ pc = "input"
    /\ input_method' = "Paste Text"
    /\ \E t \in PasteTexts : transcript_input' = t
    /\ pc' = "generate"
    /\ UNCHANGED <<selected_model, upload, pressed, prompt, requests,
                   response, displayed, shown, unhandled>>

\* What lines 191-193 do with the uploader's file f: nothing without a
\* file; else the bytes are decoded, outside any try.
TxtBranch(f) ==
    LET d == Utf8Decode(f)
    IN  IF f = None
        THEN [transcript |-> <<>>, shown |-> {}, raised |-> "none"]
        ELSE IF d.ok
            THEN [transcript |-> d.text, shown |-> {"txt_success"},
                  raised |-> "none"]
        ELSE [transcript |-> <<>>, shown |-> {},
              raised |-> "UnicodeDecodeError"]

\* Lines 189-193.
UploadTxt ==
    /\ pc = "input"
    /\ input_method' = "Upload .txt File"
    /\ \E f \in TxtFiles \cup {None} :
        LET r == TxtBranch(f)
        IN  /\ upload' = f
            /\ transcript_input' = r.transcript
            /\ shown' = shown \cup r.shown
            /\ unhandled' = r.raised
            /\ pc' = IF r.raised = "none" THEN "generate" ELSE "crashed"
    /\ UNCHANGED <<selected_model, pressed, prompt, requests, response,
                   displayed>>

\* The messages of lines 61 and 198-199 for the transcript t parse_srt gave.
SrtMessages(t) ==
    (IF t = None THEN {"srt_error"} ELSE {})
        \cup (IF t # None /\ t # <<>> THEN {"srt_success"} ELSE {})

\* Lines 194-199.
UploadSrt ==
    /\ pc = "input"
    /\ input_method' = "Upload .srt File"
    /\ \E f \in SrtFiles \cup {None} :
        LET t == IF f = None THEN <<>> ELSE parse_srt(f)
        IN  /\ upload' = f
            /\ transcript_input' = t
            /\ shown' = shown \cup SrtMessages(t)
    /\ pc' = "generate"
    /\ UNCHANGED <<selected_model, pressed, prompt, requests, response,
                   displayed, unhandled>>

\* Line 205: the button is drawn and was not pressed; the run ends.
NotPressed ==
    /\ pc = "generate"
    /\ pc' = "done"
    /\ UNCHANGED <<selected_model, input_method, upload, transcript_input,
                   pressed, prompt, requests, response, displayed, shown,
                   unhandled>>

\* RequestsSent with one retry after an API error.
RequestsSentRetrying(outcome, req) ==
    IF outcome = "client_error" THEN <<>>
    ELSE IF outcome = "api_error" THEN <<req, req>>
    ELSE <<req>>

\* Lines 214-222: the calls of chat.completions.create one press makes, req
\* being the model and the prompt: none when the client cannot be made, one
\* otherwise; an exception leaves the try block, nothing is sent again.
RequestsSent(outcome, req) ==
    IF outcome = "client_error" THEN <<>> ELSE <<req>>

\* Lines 224-232: what the handler shows for the outcome, r being the text of
\* an answer.
ResultShown(outcome, r) ==
    CASE outcome = "ok" -> [displayed |-> r, shown |-> {"result_header"}]
      [] outcome = "api_error" -> [displayed |-> None, shown |-> {"api_error"}]
      [] OTHER -> [displayed |-> None, shown |-> {"unexpected_error"}]

\* Lines 205-232: the button was pressed.
Generate ==
    /\ pc = "generate"
    /\ pressed' = TRUE
    /\ pc' = "done"
    /\ IF NoTranscript(transcript_input)
       THEN /\ shown' = shown \cup {"warning"}
            /\ UNCHANGED <<prompt, requests, response, displayed>>
       ELSE \E outcome \in Outcomes :
            \E content \in (IF outcome = "ok" THEN Results ELSE {<<>>}) :
            LET p == get_engineered_prompt(transcript_input)
                out == ResultShown(outcome, content)
            IN  /\ prompt' = p
                /\ requests' =
                    RequestsSent(outcome, [model |-> selected_model, prompt |-> p])
                /\ response' = [status |-> outcome, content |-> content]
                /\ displayed' = out.displayed
                /\ shown' = shown \cup out.shown
    /\ UNCHANGED <<selected_model, input_method, upload, transcript_input,
                   unhandled>>

\* The next interaction: Streamlit runs the script again from the top, with
\* nothing kept from the run before.
Rerun ==
    /\ pc \in {"done", "crashed", "stopped"}
    /\ pc' = "sidebar"
    /\ selected_model' = "none"
    /\ input_method' = "none"
    /\ upload' = None
    /\ transcript_input' = <<>>
    /\ pressed' = FALSE
    /\ prompt' = None
    /\ requests' = <<>>
    /\ response' = [status |-> "none", content |-> <<>>]
    /\ displayed' = None
    /\ shown' = {}
    /\ unhandled' = "none"

Next ==
    \/ SidebarNoKey
    \/ SidebarSelect
    \/ SidebarFetchFails
    \/ PasteText
    \/ UploadTxt
    \/ UploadSrt
    \/ NotPressed
    \/ Generate
    \/ Rerun

Spec == Init /\ [][Next]_vars

\* ------------------------------------------------------------------ claims

\* The .srt branch has run on an uploaded file.
SrtRan ==
    /\ input_method = "Upload .srt File"
    /\ upload # None
    /\ pc \in {"generate", "done"}

\* The uploaded file is valid UTF-8.
UploadValid == Utf8Decode(upload).ok

\* The uploaded file as text.
UploadText == Utf8Decode(upload).text

\* The UTF-8 bytes of one code point.
EncodeChar(c) ==
    IF c <= 127 THEN <<c>>
    ELSE IF c <= 2047 THEN <<192 + (c \div 64), 128 + (c % 64)>>
    ELSE IF c <= 65535
        THEN <<224 + (c \div 4096), 128 + ((c \div 64) % 64), 128 + (c % 64)>>
    ELSE <<240 + (c \div 262144), 128 + ((c \div 4096) % 64),
           128 + ((c \div 64) % 64), 128 + (c % 64)>>

RECURSIVE EncodeRange(_, _, _)
EncodeRange(s, lo, hi) ==
    IF lo > hi THEN <<>>
    ELSE IF lo = hi THEN EncodeChar(s[lo])
    ELSE LET m == (lo + hi) \div 2
         IN  EncodeRange(s, lo, m) \o EncodeRange(s, m + 1, hi)

\* str.encode('utf-8'): the bytes a transcript is handed back to parse_srt as.
Utf8Encode(s) == EncodeRange(s, 1, Len(s))

\* The lines of s, a line ending at "\n" and nowhere else; with keep, each
\* line keeps its "\n".
RECURSIVE LinesFrom(_, _, _)
LinesFrom(s, i, keep) ==
    IF i > Len(s) THEN <<>>
    ELSE LET k == FirstIn(s, i, {10})
             last == IF keep /\ k <= Len(s) THEN k ELSE k - 1
         IN  <<SubSeq(s, i, last)>> \o LinesFrom(s, k + 1, keep)

\* A sequence-number line: digits and nothing else.
IsNumberLine(l) == l # <<>> /\ \A k \in 1..Len(l) : l[k] \in Digits

\* A well-formed time-range line.
IsTimeLine(l) == Len(l) = Len(TimeRangePattern) /\ TimeRangeAt(l, 1)

\* A line that starts like a time range and is not one.
IsBadTimeLine(l) ==
    /\ Len(l) >= 12
    /\ \A k \in 1..12 : l[k] \in TimeRangePattern[k]
    /\ ~IsTimeLine(l)

\* Line k of L is one of a header pair: a sequence-number line with a
\* time-range line right after it.
InHeaderPair(L, k) ==
    \/ k < Len(L) /\ IsNumberLine(L[k]) /\ IsTimeLine(L[k + 1])
    \/ k > 1 /\ IsNumberLine(L[k - 1]) /\ IsTimeLine(L[k])

\* The lines of L whose index is in K, in order.
Pick(L, K) ==
    LET kept == SelectSeq([k \in 1..Len(L) |-> k], LAMBDA k : k \in K)
    IN  [j \in 1..Len(kept) |-> L[kept[j]]]

\* The dialogue of a subtitle text: its lines other than header pairs and
\* blank separators, tags removed, joined by "\n".
DialogueOf(text) ==
    LET L == LinesFrom(text, 1, FALSE)
        D == Pick(L, {k \in 1..Len(L) : L[k] # <<>> /\ ~InHeaderPair(L, k)})
    IN  Join([j \in 1..Len(D) |-> RemoveTags(D[j])], LF)

\* C1: for a subtitle document made only of well-formed cues, parse_srt
\* returns exactly the dialogue lines, in order, joined by single newlines,
\* without sequence numbers, time ranges, tags or anything else between them.
C1_WellFormedGivesDialogue ==
    (SrtRan /\ upload \in WellFormedDocs)
        => transcript_input = DialogueOf(UploadText)

\* C2: extraction is idempotent: parse_srt of the UTF-8 bytes of a transcript
\* parse_srt returned is that transcript.
C2_Idempotent ==
    (SrtRan /\ transcript_input # None)
        => parse_srt(Utf8Encode(transcript_input)) = transcript_input

\* C3: the prompt is a fixed prefix, the transcript unaltered and whole, and
\* a fixed suffix, whatever characters the transcript holds.
C3_PromptEmbedsTranscript ==
    prompt # None =>
        LET p == Len(PromptPrefix)
            t == Len(transcript_input)
        IN  /\ Len(prompt) = p + t + Len(PromptSuffix)
            /\ SubSeq(prompt, 1, p) = PromptPrefix
            /\ SubSeq(prompt, p + 1, p + t) = transcript_input
            /\ SubSeq(prompt, p + t + 1, Len(prompt)) = PromptSuffix

\* A prompt was built from a transcript that holds braces and a quote.
C3_Witness ==
    /\ prompt # None
    /\ {123, 125, 34} \subseteq {transcript_input[k] : k \in 1..Len(transcript_input)}

\* The transcript is absent, empty or whitespace only.
Blank(t) == t = None \/ \A k \in 1..Len(t) : t[k] \in Whitespace

\* C4: when Generate is pressed with an absent, empty or whitespace-only
\* transcript, on any input path, no prompt is built and no request is sent;
\* the user is told to provide a transcript.
C4_BlankNeverReachesBuilder ==
    (pressed /\ Blank(transcript_input))
        => /\ prompt = None
           /\ requests = <<>>
           /\ response.status = "none"
           /\ displayed = None
           /\ "warning" \in shown

\* Generate was pressed on a transcript that is not empty and is blank:
\* whitespace only, or the None of a failed extraction.
C4_Witness ==
    /\ pressed
    /\ transcript_input # <<>>
    /\ Blank(transcript_input)

\* C5: when the bytes given to parse_srt are not valid UTF-8, the failure is
\* reported, parse_srt returns no text at all and the success message of the
\* .srt branch is never shown.
C5_InvalidUtf8GivesNothing ==
    (SrtRan /\ (upload \in InvalidDocs \/ ~UploadValid))
        => /\ transcript_input = None
           /\ "srt_error" \in shown
           /\ "srt_success" \notin shown

\* An upload of a whole cue followed by a byte that is not UTF-8 was
\* processed.
C5_Witness ==
    /\ SrtRan
    /\ upload = Cue(1, Hey \o LF) \o <<255>>

\* C6: every error of a request is caught and shown as a message, and none
\* ends the run with an unhandled exception: the run still reaches the
\* Generate step.
C6_EveryErrorHandled ==
    /\ unhandled = "none"
    /\ pc # "crashed"
    /\ (SrtRan /\ ~UploadValid) => "srt_error" \in shown
    /\ response.status = "api_error" => "api_error" \in shown
    /\ response.status \in {"client_error", "error"}
        => "unexpected_error" \in shown

\* C7: a press of Generate with a transcript sends at most one request, with
\* the built prompt and the selected model; a failure is shown as an error,
\* not retried, and shows no result; a result is shown only after an answer
\* and is the answer's text.
C7_OneRequestNoRetry ==
    /\ Len(requests) <= 1
    /\ requests # <<>> =>
        /\ pressed
        /\ requests[1].model = selected_model
        /\ requests[1].prompt = get_engineered_prompt(transcript_input)
    /\ response.status \in {"client_error", "api_error", "error"} =>
        /\ displayed = None
        /\ "result_header" \notin shown
        /\ {"api_error", "unexpected_error"} \cap shown # {}
    /\ displayed # None =>
        /\ response.status = "ok"
        /\ displayed = response.content
        /\ Len(requests) = 1

\* The one request of a press failed with an API error.
C7_Witness ==
    /\ response.status = "api_error"
    /\ Len(requests) = 1
    /\ displayed = None

\* The text without its header pairs: every line that is not one of a
\* header pair, with its "\n", in order.
WithoutHeaderPairs(text) ==
    LET L == LinesFrom(text, 1, TRUE)
        bare == [k \in 1..Len(L) |->
                    IF L[k] # <<>> /\ L[k][Len(L[k])] = 10
                    THEN SubSeq(L[k], 1, Len(L[k]) - 1) ELSE L[k]]
        Ended(k) == L[k] # <<>> /\ L[k][Len(L[k])] = 10
        IsHeader(k) ==
            \/ k < Len(L) /\ IsNumberLine(bare[k]) /\ IsTimeLine(bare[k + 1])
                /\ Ended(k + 1)
            \/ k > 1 /\ IsNumberLine(bare[k - 1]) /\ IsTimeLine(bare[k])
                /\ Ended(k)
    IN  Concat(Pick(L, {k \in 1..Len(L) : ~IsHeader(k)}))

\* C8: header removal deletes a sequence-number/time-range pair only when the
\* digits are a whole line; every other line is left unchanged and no two
\* lines are merged.
C8_OnlyHeaderPairsRemoved ==
    (SrtRan /\ UploadValid)
        => RemoveHeaders(UploadText) = WithoutHeaderPairs(UploadText)

\* C9: no line of the text parse_srt returns is empty or whitespace only.
C9_NoBlankLineLeft ==
    (SrtRan /\ transcript_input # None) =>
        LET L == LinesFrom(transcript_input, 1, FALSE)
        IN  \A k \in 1..Len(L) : ~Blank(L[k])

\* C10: on valid UTF-8 parse_srt returns a transcript and reports no failure;
\* a sequence-number line not followed by a time-range line, and a malformed
\* time-range line, are passed through unchanged as lines of the transcript.
C10_BestEffortPassThrough ==
    (SrtRan /\ UploadValid) =>
        LET L == SplitLines(UploadText)
            out == SplitLines(transcript_input)
            Passed(l) == \E j \in 1..Len(out) : out[j] = l
        IN  /\ transcript_input # None
            /\ "srt_error" \notin shown
            /\ \A k \in 1..Len(L) :
                (\/ IsNumberLine(L[k])
                        /\ ~(k < Len(L) /\ IsTimeLine(L[k + 1]))
                 \/ IsBadTimeLine(L[k]))
                    => Passed(L[k])
====
